---- MODULE Spec2Model ----
(***************************************************************************)
(* A model of the metahire-v2 services:                                    *)
(*   - the resume service (resume_parser.py, experience_calculator.py):    *)
(*     /upload_resume/ -> generate_gpt_insights -> calculate_experience;   *)
(*   - the matching service (match.py): /match/ and match_item;            *)
(*   - the ambient openai.api_key shared by the requests of a process      *)
(*     (app.py parse_natural_query, match.py match_item).                  *)
(*                                                                         *)
(* Numbers.  A float "years + months/12" is kept exactly, in twelfths of a *)
(* year (an integer number of months); a value rounded by round(x, 1) is   *)
(* kept in tenths of a year.  A text is the sequence of its words (the     *)
(* text split at white space); a lone "-" word stands for " - ".           *)
(***************************************************************************)
EXTENDS Integers, Sequences, FiniteSets, TLC

VARIABLES
    \* ---- resume service
    pc,                        \* position of the /upload_resume/ request
    filename,                  \* file.filename of the request
    status,                    \* HTTP status of the response (0: none yet)
    work_experience,           \* the job dicts handed to calculate_experience
    idx,                       \* number of jobs the for loop has consumed
    total_years,               \* running total, in twelfths of a year
    inexact,                   \* the running total holds a float that is not exact
    experience_years,          \* job index -> job["experience_years"], in tenths
    modified_work_experience,  \* the jobs kept: indices into work_experience
    end_date,                  \* job index -> the end instant used for it
    total_rounded,             \* the returned total_years, in tenths
    now,                       \* position of the wall clock in Clock
    \* ---- matching service
    mpc,                       \* position of the /match/ request
    mstatus,                   \* HTTP status of the /match/ response (0: none yet)
    job_description_details,   \* body.job_description.parsed_data
    resume_details,            \* body.resume.response
    ci, si, ii,                \* category, subcategory and item being visited
    matching_results,          \* category -> subcategory -> item -> match data
    calls,                     \* the calls of match_item so far, with the reply each got
    category_scores,           \* category -> score, as <<halves, items>>
    category_score,            \* in halves of a point
    category_items,
    total_score,               \* in halves of a point
    total_items,
    overall_score,             \* as <<halves, items>>
    \* ---- ambient API key
    api_key,                   \* openai.api_key, the module attribute
    rpc,                       \* request -> its position
    kind,                      \* request -> "query" or "match"
    left,                      \* request -> items still to be matched
    used,                      \* the LLM calls made: <<request, key used>>
    \* ---- coercion of a model reply
    cpc,                       \* position in the coercion of the reply
    cpath,                     \* "resume" (generate_gpt_insights) or "query" (parse_natural_query)
    raw,                       \* the message content, as its characters
    content,                   \* the text being coerced
    coerced                    \* the outcome: the parsed value or the failure

resumeVars == <<pc, filename, status, work_experience, idx, total_years, inexact,
                experience_years, modified_work_experience, end_date,
                total_rounded, now>>
matchVars == <<mpc, mstatus, job_description_details, resume_details, ci, si, ii,
               matching_results, calls, category_scores, category_score,
               category_items, total_score, total_items, overall_score>>
keyVars == <<api_key, rpc, kind, left, used>>
coerceVars == <<cpc, cpath, raw, content, coerced>>
vars == <<resumeVars, matchVars, keyVars, coerceVars>>

(***************************************************************************)
(* Bounds                                                                  *)
(***************************************************************************)
\* The longest work_experience list a model reply carries.
MaxJobs == 3
\* The most leaf items a requirements tree holds.
MaxLeaves == 4

(***************************************************************************)
(* Texts and dates                                                         *)
(***************************************************************************)
\* A JSON value of the key "employment_dates": a string, null, or no key.
Str(words) == [t |-> "str", s |-> words]
Null == [t |-> "null", s |-> <<>>]
Absent == [t |-> "absent", s |-> <<>>]

\* str.lower() on the words the model uses.
Lower(w) ==
    CASE w \in {"Present", "PRESENT", "present"} -> "present"
      [] w \in {"Current", "CURRENT", "current"} -> "current"
      [] w \in {"January", "january"} -> "january"
      [] w \in {"February", "february"} -> "february"
      [] w \in {"March", "march"} -> "march"
      [] w \in {"June", "june"} -> "june"
      [] w \in {"July", "july"} -> "july"
      [] w \in {"October", "october"} -> "october"
      [] OTHER -> w

\* The month names "%B" accepts (matched ignoring case), with their numbers.
MonthNumber(w) ==
    CASE Lower(w) = "january" -> 1
      [] Lower(w) = "february" -> 2
      [] Lower(w) = "march" -> 3
      [] Lower(w) = "april" -> 4
      [] Lower(w) = "may" -> 5
      [] Lower(w) = "june" -> 6
      [] Lower(w) = "july" -> 7
      [] Lower(w) = "august" -> 8
      [] Lower(w) = "september" -> 9
      [] Lower(w) = "october" -> 10
      [] Lower(w) = "november" -> 11
      [] Lower(w) = "december" -> 12
      [] OTHER -> 0

\* The value "%Y" reads from a word of four digits (0: the word is not one).
YearNumber(w) ==
    CASE w = "2015" -> 2015
      [] w = "2016" -> 2016
      [] w = "2017" -> 2017
      [] w = "2020" -> 2020
      [] w = "2027" -> 2027
      [] OTHER -> 0

\* An instant: year, month, and whether it lies after the month's first instant.
Instant(y, m, o) == [y |-> y, m |-> m, off |-> o]
NoInstant == [y |-> 0, m |-> 0, off |-> 0]

\* datetime.strptime(words, "%B %Y"): NoInstant stands for ValueError.
Strptime(words) ==
    IF Len(words) = 2 /\ MonthNumber(words[1]) # 0 /\ YearNumber(words[2]) # 0
    THEN Instant(YearNumber(words[2]), MonthNumber(words[1]), 0)
    ELSE NoInstant

\* str.split(" - "): the parts between the separators, scanning left to right.
\* A "-" is a separator when a word stands on each side of it and the word
\* before it was not consumed as a separator.
RECURSIVE SplitFrom(_, _, _, _)
SplitFrom(words, i, cur, prevSep) ==
    IF i > Len(words) THEN <<cur>>
    ELSE IF words[i] = "-" /\ i > 1 /\ i < Len(words) /\ ~prevSep
         THEN <<cur>> \o SplitFrom(words, i + 1, <<>>, TRUE)
         ELSE SplitFrom(words, i + 1, Append(cur, words[i]), FALSE)

\* A split that keeps the first two parts and ignores the rest.
SplitFirstTwo(words) ==
    LET parts == SplitFrom(words, 1, <<>>, FALSE)
    IN  IF Len(parts) > 2 THEN SubSeq(parts, 1, 2) ELSE parts

Split(words) == SplitFrom(words, 1, <<>>, FALSE)

(***************************************************************************)
(* dateutil's relativedelta(dt1, dt2) on instants                          *)
(***************************************************************************)
MonthIndex(dt) == 12 * dt.y + (dt.m - 1)

Before(a, b) ==
    \/ MonthIndex(a) < MonthIndex(b)
    \/ MonthIndex(a) = MonthIndex(b) /\ a.off < b.off

\* dt + relativedelta(months = k)
AddMonths(dt, k) ==
    Instant((MonthIndex(dt) + k) \div 12, ((MonthIndex(dt) + k) % 12) + 1, dt.off)

\* The month count after the "overshot our target" adjustment loop.
RECURSIVE AdjustMonths(_, _, _)
AdjustMonths(dt1, dt2, months) ==
    IF Before(dt1, dt2)
    THEN IF Before(AddMonths(dt2, months), dt1)
         THEN AdjustMonths(dt1, dt2, months + 1) ELSE months
    ELSE IF Before(dt1, AddMonths(dt2, months))
         THEN AdjustMonths(dt1, dt2, months - 1) ELSE months

Abs(n) == IF n < 0 THEN -n ELSE n
Sign(n) == IF n < 0 THEN -1 ELSE 1

\* _set_months: years and months carry the sign of the month count.
SetMonths(months) ==
    [years |-> Sign(months) * (Abs(months) \div 12),
     months |-> Sign(months) * (Abs(months) % 12)]

RelativeDelta(dt1, dt2) ==
    SetMonths(AdjustMonths(dt1, dt2, MonthIndex(dt1) - MonthIndex(dt2)))

(***************************************************************************)
(* round(x, 1)                                                             *)
(***************************************************************************)
\* x is v12/12; the result is in tenths.  round() rounds the exact value of
\* the float to the nearest tenth, a tie to the even digit.
Round1(v12) ==
    LET a == 5 * Abs(v12)
        q == a \div 6
        r == a % 6
        n == IF r < 3 THEN q
             ELSE IF r > 3 THEN q + 1
             ELSE IF q % 2 = 0 THEN q ELSE q + 1
    IN  Sign(v12) * n

\* round(x) without the number of digits: to whole years.
RoundWholeSum(v12, inex) ==
    {10 * Sign(v12) * ((2 * Abs(v12) + 12) \div 24)}

\* A float sum that is not exact may lie on either side of a tie.
Round1Sum(v12, inex) ==
    IF inex /\ (5 * Abs(v12)) % 6 = 3
    THEN {Sign(v12) * ((5 * Abs(v12)) \div 6), Sign(v12) * (((5 * Abs(v12)) \div 6) + 1)}
    ELSE {Round1(v12)}

\* k/12 is a float with no rounding error when it is a multiple of 1/4.
ExactFloat(v12) == v12 % 3 = 0

(***************************************************************************)
(* The resume service: inputs                                              *)
(***************************************************************************)
\* The employment_dates a model reply may carry.
DateValues ==
    { Str(<<"January", "2015", "-", "January", "2017">>),
      Str(<<"March", "2016", "-", "June", "2016">>),
      Str(<<"january", "2015", "-", "February", "2016">>),
      Str(<<"January", "2017", "-", "January", "2015">>),
      Str(<<"January", "2015", "-", "Present">>),
      Str(<<"March", "2016", "-", "CURRENT">>),
      Str(<<"February", "2027", "-", "present">>),
      Str(<<"Present", "-", "January", "2015">>),
      Str(<<"Jan", "2015", "-", "Dec", "2020">>),
      Str(<<"January", "2015", "-", "March", "2016", "-", "Present">>),
      Null,
      Absent }

Job(v) == [employment_dates |-> v]

JobLists == UNION { [1..n -> {Job(v) : v \in DateValues}] : n \in 0..MaxJobs }

\* str.endswith(suffix), for a suffix that is a dot and an extension.
EndsWith(name, suffix) == name[Len(name)] = suffix

\* The uploaded file's name, cut before each dot.
FileNames ==
    { <<"cv", ".pdf">>, <<"cv", ".docx">>, <<"cv", ".txt">>,
      <<"cv", ".PDF">>, <<"cv", ".pdf", ".bak">>, <<"cv">> }

Supported(fn) == EndsWith(fn, ".pdf") \/ EndsWith(fn, ".docx")

\* The instants datetime.now() returns as time passes.
Clock == << Instant(2026, 12, 1), Instant(2027, 1, 0) >>

(***************************************************************************)
(* calculate_experience: one job                                           *)
(***************************************************************************)
\* job.get("employment_dates", "")
GetDates(job) ==
    IF job.employment_dates.t = "absent" THEN Str(<<>>) ELSE job.employment_dates

\* The comparison without lower().
IsOngoingExact(words) == Len(words) = 1 /\ words[1] \in {"present", "current"}

\* end_date_str.lower() in ["present", "current"]
IsOngoing(words) == Len(words) = 1 /\ Lower(words[1]) \in {"present", "current"}

\* The body of the try block up to the two dates: what it raises, or the
\* start and end instants.
ParseDates(dates, clock) ==
    IF dates.t # "str" THEN [exc |-> "AttributeError", start |-> NoInstant, end |-> NoInstant]
    ELSE LET parts == Split(dates.s) IN
         IF Len(parts) # 2
         THEN [exc |-> "ValueError", start |-> NoInstant, end |-> NoInstant]
         ELSE LET start == Strptime(parts[1])
                  end == IF IsOngoing(parts[2]) THEN clock ELSE Strptime(parts[2])
              IN  IF start = NoInstant \/ end = NoInstant
                  THEN [exc |-> "ValueError", start |-> NoInstant, end |-> NoInstant]
                  ELSE [exc |-> "none", start |-> start, end |-> end]

\* job_experience.years alone.
ExperienceYearsOnly(start, end) ==
    LET d == RelativeDelta(end, start) IN 12 * d.years

\* job_experience.years + (job_experience.months / 12), in twelfths.
ExperienceOf(start, end) ==
    LET d == RelativeDelta(end, start) IN 12 * d.years + d.months

\* round(experience_years, 1), in tenths.
RoundJob(v12) == Round1(v12)

\* The exceptions the except clause of calculate_experience handles.
Handled(exc) == exc = "ValueError"

(***************************************************************************)
(* The resume service: actions                                             *)
(***************************************************************************)
\* The status of the HTTPException the outer except of upload_resume raises,
\* whatever it caught.
UploadExcept(code) == 500

\* The status of the HTTPException the except clauses of generate_gpt_insights
\* raise, whatever they caught.
InsightsExcept(code) == 500

InitResume ==
    /\ pc = "idle"
    /\ filename = <<>>
    /\ status = 0
    /\ work_experience = <<>>
    /\ idx = 0
    /\ total_years = 0
    /\ inexact = FALSE
    /\ experience_years = <<>>
    /\ modified_work_experience = <<>>
    /\ end_date = <<>>
    /\ total_rounded = 0
    /\ now = 1

calcVars == <<work_experience, idx, total_years, inexact, experience_years,
              modified_work_experience, end_date, total_rounded>>

\* upload_resume up to the call of generate_gpt_insights.
UploadResume ==
    /\ pc = "idle"
    /\ \E fn \in FileNames :
          /\ filename' = fn
          /\ IF Supported(fn)
             THEN \/ pc' = "extracted" /\ status' = status
                  \/ pc' = "done" /\ status' = UploadExcept(0)   \* the extractor raised
             ELSE pc' = "done" /\ status' = UploadExcept(400)
    /\ UNCHANGED <<calcVars, now>>
    /\ UNCHANGED <<matchVars, keyVars, coerceVars>>

\* generate_gpt_insights up to the call of calculate_experience: the model's
\* reply is an error, a text that is no braced object, a text that does not
\* parse, or an object with a work_experience list.
GptInsights ==
    /\ pc = "extracted"
    /\ \/ /\ pc' = "done"
          /\ status' = UploadExcept(InsightsExcept(500))
          /\ UNCHANGED work_experience
       \/ /\ \E jobs \in JobLists : work_experience' = jobs
          /\ pc' = "calc"
          /\ status' = status
    /\ UNCHANGED <<filename, idx, total_years, inexact, experience_years,
                   modified_work_experience, end_date, total_rounded, now>>
    /\ UNCHANGED <<matchVars, keyVars, coerceVars>>

\* One iteration of the for loop of calculate_experience.
CalcStep ==
    /\ pc = "calc"
    /\ idx < Len(work_experience)
    /\ LET i == idx + 1
           p == ParseDates(GetDates(work_experience[i]), Clock[now])
           v == ExperienceOf(p.start, p.end)
       IN  IF p.exc = "none"
           THEN /\ total_years' = total_years + v
                /\ inexact' = (inexact \/ ~ExactFloat(v))
                /\ experience_years' = experience_years @@ (i :> RoundJob(v))
                /\ modified_work_experience' = Append(modified_work_experience, i)
                /\ end_date' = end_date @@ (i :> p.end)
                /\ idx' = i
                /\ pc' = pc
           ELSE IF Handled(p.exc)
           THEN /\ idx' = i
                /\ pc' = pc
                /\ UNCHANGED <<total_years, inexact, experience_years,
                               modified_work_experience, end_date>>
           ELSE /\ pc' = "raised"
                /\ UNCHANGED <<idx, total_years, inexact, experience_years,
                               modified_work_experience, end_date>>
    /\ UNCHANGED <<filename, status, work_experience, total_rounded, now>>
    /\ UNCHANGED <<matchVars, keyVars, coerceVars>>

\* The end of the loop: total_years = round(total_years, 1) and the return.
CalcReturn ==
    /\ pc = "calc"
    /\ idx = Len(work_experience)
    /\ total_rounded' \in Round1Sum(total_years, inexact)
    /\ pc' = "returned"
    /\ UNCHANGED <<filename, status, work_experience, idx, total_years, inexact,
                   experience_years, modified_work_experience, end_date, now>>
    /\ UNCHANGED <<matchVars, keyVars, coerceVars>>

\* The rest of generate_gpt_insights and of upload_resume: the success
\* response, or the 500 of an exception calculate_experience let through.
Respond ==
    /\ pc \in {"returned", "raised"}
    /\ status' = IF pc = "returned" THEN 200 ELSE UploadExcept(InsightsExcept(0))
    /\ pc' = "done"
    /\ UNCHANGED <<filename, calcVars, now>>
    /\ UNCHANGED <<matchVars, keyVars, coerceVars>>

\* Time passes while jobs are left to aggregate.
Tick ==
    /\ pc = "calc"
    /\ idx < Len(work_experience)
    /\ now < Len(Clock)
    /\ now' = now + 1
    /\ UNCHANGED <<pc, filename, status, calcVars>>
    /\ UNCHANGED <<matchVars, keyVars, coerceVars>>

NextResume ==
    \/ UploadResume
    \/ GptInsights
    \/ CalcStep
    \/ CalcReturn
    \/ Respond
    \/ Tick

(***************************************************************************)
(* The matching service: inputs                                            *)
(***************************************************************************)
\* A subcategory's value: a list of items, or a value that is no list.
List(items) == [islist |-> TRUE, items |-> items]
NotList == [islist |-> FALSE, items |-> <<>>]

\* A category's value: a dict of subcategories (in key order), or a value
\* that is no dict.
Dict(subs) == [isdict |-> TRUE, subs |-> subs]
NotDict == [isdict |-> FALSE, subs |-> <<>>]

CategoryValues ==
    { NotDict,
      Dict(<<>>),
      Dict(<<List(<<>>)>>),
      Dict(<<List(<<"a">>)>>),
      Dict(<<List(<<"a", "b">>)>>),
      Dict(<<List(<<"a", "a">>)>>),
      Dict(<<List(<<"a">>), List(<<"b">>)>>),
      Dict(<<List(<<"a", "b", "a">>)>>),
      Dict(<<NotList>>),
      Dict(<<List(<<"a">>), NotList>>) }

\* The keys, in the order the dicts hold them.
CategoryNames == <<"Skills", "Experience">>
SubcategoryNames == <<"required", "preferred">>

RECURSIVE SumLen(_)
SumLen(subs) ==
    IF subs = <<>> THEN 0 ELSE Len(Head(subs).items) + SumLen(Tail(subs))

RECURSIVE LeafCount(_)
LeafCount(cats) ==
    IF cats = <<>> THEN 0 ELSE SumLen(Head(cats).subs) + LeafCount(Tail(cats))

\* parsed_data: a dict of categories, or a JSON list, or nothing.
Trees ==
    { [t |-> "dict", cats |-> c] :
        c \in { d \in UNION { [1..n -> CategoryValues] : n \in 0..Len(CategoryNames) } :
                  LeafCount(d) <= MaxLeaves } }

JdValues ==
    Trees \cup { [t |-> "list", cats |-> <<>>],      \* parsed_data is a non-empty list
                 [t |-> "missing", cats |-> <<>>],   \* no job_description, or no parsed_data
                 [t |-> "null", cats |-> <<>>] }     \* job_description is null

ResumeValues == {"dict", "missing", "null"}          \* likewise for resume.response

\* What the chat completion gives match_item: a text, or an error of the client.
Replies ==
    { [t |-> "object", level |-> "Full match"],
      [t |-> "object", level |-> "Partial match"],
      [t |-> "object", level |-> "No match"],
      [t |-> "object", level |-> "Strong match"],
      [t |-> "object", level |-> "Error"],
      [t |-> "object_no_level", level |-> ""],
      [t |-> "array", level |-> ""],
      [t |-> "not_json", level |-> ""],
      [t |-> "empty", level |-> ""],
      [t |-> "openai_error", level |-> ""] }

(***************************************************************************)
(* match_item and the scoring                                              *)
(***************************************************************************)
\* match_item: the value it returns, or the exception it raises with its
\* detail.  Its except clauses turn every exception into an HTTPException.
MatchItem(reply) ==
    CASE reply.t = "object" ->
           [raised |-> "none", detail |-> "", isdict |-> TRUE,
            data |-> [match_level |-> reply.level, reason |-> <<"model reason">>,
                      evidence |-> "model evidence"]]
      [] reply.t = "object_no_level" ->
           [raised |-> "none", detail |-> "", isdict |-> TRUE,
            data |-> [reason |-> <<"model reason">>, evidence |-> "model evidence"]]
      [] reply.t = "array" ->
           [raised |-> "none", detail |-> "", isdict |-> FALSE, data |-> <<>>]
      [] reply.t = "not_json" ->
           [raised |-> "HTTPException", detail |-> "Error parsing JSON response from OpenAI.",
            isdict |-> FALSE, data |-> <<>>]
      [] reply.t = "empty" ->
           [raised |-> "HTTPException", detail |-> "An error occurred: Empty response from OpenAI.",
            isdict |-> FALSE, data |-> <<>>]
      [] OTHER ->
           [raised |-> "HTTPException", detail |-> "OpenAI API error.",
            isdict |-> FALSE, data |-> <<>>]

\* MATCH_SCORES.get(match_level, 0), in halves of a point.
ItemScore(level) ==
    CASE level = "Full match" -> 2
      [] level = "Partial match" -> 1
      [] level = "No match" -> 0
      [] level = "Error" -> 0
      [] OTHER -> 0

\* match_data.get("match_level", "No match")
MatchLevel(data) ==
    IF "match_level" \in DOMAIN data THEN data.match_level ELSE "No match"

\* The entry the except clause of the item loop stores.
ErrorEntry(detail) ==
    [match_level |-> "Error", reason |-> <<"Error during matching: ", detail>>,
     evidence |-> ""]

\* An except clause of the item loop that names another exception type.
HandledValueErrorOnly(exc) == exc = "ValueError"

\* The exceptions the except clause of the item loop handles.
HandledInLoop(exc) == exc = "HTTPException"

Cats == job_description_details.cats
Subs == Cats[ci].subs
Items == Subs[si].items
Category == CategoryNames[ci]
Subcategory == SubcategoryNames[si]

InitMatch ==
    /\ mpc = "idle"
    /\ mstatus = 0
    /\ job_description_details = [t |-> "missing", cats |-> <<>>]
    /\ resume_details = "missing"
    /\ ci = 0 /\ si = 0 /\ ii = 0
    /\ matching_results = <<>>
    /\ calls = <<>>
    /\ category_scores = <<>>
    /\ category_score = 0
    /\ category_items = 0
    /\ total_score = 0
    /\ total_items = 0
    /\ overall_score = <<0, 1>>

walkVars == <<matching_results, calls, category_scores, category_score,
              category_items, total_score, total_items, overall_score>>

\* unified_match_endpoint up to the category loop.
MatchRequest ==
    /\ mpc = "idle"
    /\ \E jd \in JdValues, r \in ResumeValues :
          /\ job_description_details' = jd
          /\ resume_details' = r
          /\ IF jd.t = "null" \/ r = "null"
             THEN mpc' = "done" /\ mstatus' = 500      \* None has no .get
             ELSE IF jd.t = "missing" \/ (jd.t = "dict" /\ jd.cats = <<>>) \/ r = "missing"
             THEN mpc' = "done" /\ mstatus' = 400
             ELSE IF jd.t # "dict"
             THEN mpc' = "done" /\ mstatus' = 500
             ELSE mpc' = "category" /\ mstatus' = mstatus
    /\ ci' = 1
    /\ UNCHANGED <<si, ii, walkVars>>
    /\ UNCHANGED <<resumeVars, keyVars, coerceVars>>

\* The head of one iteration of the category loop.
EnterCategory ==
    /\ mpc = "category"
    /\ ci <= Len(Cats)
    /\ IF ~Cats[ci].isdict
       THEN /\ ci' = ci + 1
            /\ UNCHANGED <<mpc, si, matching_results, category_score, category_items>>
       ELSE /\ matching_results' = (Category :> <<>>) @@ matching_results
            /\ category_score' = 0
            /\ category_items' = 0
            /\ si' = 1
            /\ mpc' = "subcategory"
            /\ ci' = ci
    /\ UNCHANGED <<mstatus, job_description_details, resume_details, ii, calls,
                   category_scores, total_score, total_items, overall_score>>
    /\ UNCHANGED <<resumeVars, keyVars, coerceVars>>

\* The head of one iteration of the subcategory loop.
EnterSubcategory ==
    /\ mpc = "subcategory"
    /\ si <= Len(Subs)
    /\ IF ~Subs[si].islist
       THEN /\ mpc' = "done"
            /\ mstatus' = 500
            /\ UNCHANGED <<matching_results, ii>>
       ELSE /\ matching_results' =
                  [matching_results EXCEPT ![Category] = (Subcategory :> <<>>) @@ @]
            /\ ii' = 1
            /\ mpc' = "item"
            /\ mstatus' = mstatus
    /\ UNCHANGED <<job_description_details, resume_details, ci, si, calls,
                   category_scores, category_score, category_items, total_score,
                   total_items, overall_score>>
    /\ UNCHANGED <<resumeVars, keyVars, coerceVars>>

\* One iteration of the item loop: the call of match_item and its scoring.
MatchStep ==
    /\ mpc = "item"
    /\ ii <= Len(Items)
    /\ \E reply \in Replies :
        LET item == Items[ii]
            m == MatchItem(reply)
            score == ItemScore(MatchLevel(m.data))
        IN  /\ calls' = Append(calls, [category |-> Category, subcategory |-> Subcategory,
                                       item |-> item, reply |-> reply])
            /\ IF m.raised # "none"
               THEN /\ UNCHANGED <<category_score, category_items,
                                   total_score, total_items>>
                    /\ IF HandledInLoop(m.raised)
                       THEN /\ matching_results' =
                                  [matching_results EXCEPT ![Category][Subcategory] =
                                      (item :> ErrorEntry(m.detail)) @@ @]
                            /\ mpc' = mpc /\ mstatus' = mstatus /\ ii' = ii + 1
                       ELSE /\ mpc' = "done" /\ mstatus' = 500  \* the outer except
                            /\ UNCHANGED <<matching_results, ii>>
               ELSE /\ matching_results' =
                          [matching_results EXCEPT ![Category][Subcategory] =
                              (item :> m.data) @@ @]
                    /\ IF m.isdict
                       THEN /\ category_score' = category_score + score
                            /\ category_items' = category_items + 1
                            /\ total_score' = total_score + score
                            /\ total_items' = total_items + 1
                            /\ mpc' = mpc /\ mstatus' = mstatus /\ ii' = ii + 1
                       ELSE /\ mpc' = "done" /\ mstatus' = 500   \* a list has no .get
                            /\ UNCHANGED <<category_score, category_items,
                                           total_score, total_items, ii>>
    /\ UNCHANGED <<job_description_details, resume_details, ci, si,
                   category_scores, overall_score>>
    /\ UNCHANGED <<resumeVars, keyVars, coerceVars>>

\* The item loop is over: the next subcategory.
EndSubcategory ==
    /\ mpc = "item"
    /\ ii > Len(Items)
    /\ si' = si + 1
    /\ mpc' = "subcategory"
    /\ UNCHANGED <<mstatus, job_description_details, resume_details, ci, ii, walkVars>>
    /\ UNCHANGED <<resumeVars, keyVars, coerceVars>>

\* The subcategory loop is over: the category's score, and the next category.
EndCategory ==
    /\ mpc = "subcategory"
    /\ si > Len(Subs)
    /\ category_scores' =
          IF category_items > 0
          THEN (Category :> <<category_score, category_items>>) @@ category_scores
          ELSE category_scores
    /\ ci' = ci + 1
    /\ mpc' = "category"
    /\ UNCHANGED <<mstatus, job_description_details, resume_details, si, ii,
                   matching_results, calls, category_score, category_items,
                   total_score, total_items, overall_score>>
    /\ UNCHANGED <<resumeVars, keyVars, coerceVars>>

\* The category loop is over: the overall score and the success response.
MatchRespond ==
    /\ mpc = "category"
    /\ ci > Len(Cats)
    /\ overall_score' = IF total_items > 0 THEN <<total_score, total_items>> ELSE <<0, 1>>
    /\ mstatus' = 200
    /\ mpc' = "done"
    /\ UNCHANGED <<job_description_details, resume_details, ci, si, ii,
                   matching_results, calls, category_scores, category_score,
                   category_items, total_score, total_items>>
    /\ UNCHANGED <<resumeVars, keyVars, coerceVars>>

NextMatch ==
    \/ MatchRequest
    \/ EnterCategory
    \/ EnterSubcategory
    \/ MatchStep
    \/ EndSubcategory
    \/ EndCategory
    \/ MatchRespond

(***************************************************************************)
(* The ambient API key: the requests of one process                        *)
(***************************************************************************)
\* Two requests in flight in one process.  The first is a /process-query/
\* request, which runs on a worker thread; the second is a /process-query/
\* or a /match/ request.
Requests == {1, 2}

\* The openai_api_key header of each request.
KeyOf(r) == IF r = 1 THEN "key-one" ELSE "key-two"

\* The number of leaf items of a /match/ request.
ItemCounts == {1, 2}

InitKeys ==
    /\ api_key = "unset"
    /\ rpc = [r \in Requests |-> "idle"]
    /\ kind = [r \in Requests |-> "query"]
    /\ left = [r \in Requests |-> 0]
    /\ used = <<>>

\* The request arrives; a /process-query/ request starts with
\* fetch_json_structure, a /match/ request with its item loop.
Arrive(r) ==
    /\ rpc[r] = "idle"
    /\ \E k \in (IF r = 1 THEN {"query"} ELSE {"query", "match"}) :
          /\ kind' = [kind EXCEPT ![r] = k]
          /\ IF k = "query"
             THEN /\ rpc' = [rpc EXCEPT ![r] = "fetch"]
                  /\ left' = [left EXCEPT ![r] = 1]
             ELSE /\ rpc' = [rpc EXCEPT ![r] = "call"]
                  /\ \E n \in ItemCounts : left' = [left EXCEPT ![r] = n]
    /\ UNCHANGED <<api_key, used>>
    /\ UNCHANGED <<resumeVars, matchVars, coerceVars>>

\* fetch_json_structure returns, or raises and ends the request.
FetchStructure(r) ==
    /\ rpc[r] = "fetch"
    /\ \/ rpc' = [rpc EXCEPT ![r] = "call"]
       \/ rpc' = [rpc EXCEPT ![r] = "done"]
    /\ UNCHANGED <<api_key, kind, left, used>>
    /\ UNCHANGED <<resumeVars, matchVars, coerceVars>>

\* openai.api_key = openai_api_key, in parse_natural_query and in match_item.
SetKey(r) ==
    /\ rpc[r] = "call"
    /\ api_key' = KeyOf(r)
    /\ rpc' = [rpc EXCEPT ![r] = "keyset"]
    /\ UNCHANGED <<kind, left, used>>
    /\ UNCHANGED <<resumeVars, matchVars, coerceVars>>

\* The key a ChatCompletion.create call without an api_key argument sends.
KeySent(r) == api_key

\* openai.ChatCompletion.create(...): the call goes out with the ambient key.
CreateCompletion(r) ==
    /\ rpc[r] = "keyset"
    /\ used' = Append(used, [request |-> r, key |-> KeySent(r)])
    /\ left' = [left EXCEPT ![r] = @ - 1]
    /\ rpc' = [rpc EXCEPT ![r] = IF left[r] > 1 THEN "call" ELSE "done"]
    /\ UNCHANGED <<api_key, kind>>
    /\ UNCHANGED <<resumeVars, matchVars, coerceVars>>

NextKeys ==
    \E r \in Requests :
        \/ Arrive(r)
        \/ FetchStructure(r)
        \/ SetKey(r)
        \/ CreateCompletion(r)

(***************************************************************************)
(* Coercion of a model reply: text operations                              *)
(***************************************************************************)
\* A text is the sequence of its characters.  The replies hold no backslash,
\* so a JSON string ends at the next double quote.
IsSpace(c) == c \in {" ", "\n"}

\* str.strip()
RECURSIVE LStrip(_)
LStrip(t) == IF t # <<>> /\ IsSpace(Head(t)) THEN LStrip(Tail(t)) ELSE t

RECURSIVE RStrip(_)
RStrip(t) ==
    IF t # <<>> /\ IsSpace(t[Len(t)]) THEN RStrip(SubSeq(t, 1, Len(t) - 1)) ELSE t

Strip(t) == RStrip(LStrip(t))

\* str.startswith(c), str.endswith(c) for one character
StartsWith(t, c) == t # <<>> /\ t[1] = c
EndsWithChar(t, c) == t # <<>> /\ t[Len(t)] = c

\* content.startswith('{') and content.endswith('}')
IsBraced(t) == StartsWith(t, "{") /\ EndsWithChar(t, "}")

\* str.replace("'", '"')
ReplaceQuotes(t) == [i \in DOMAIN t |-> IF t[i] = "'" THEN "\"" ELSE t[i]]

(***************************************************************************)
(* json.loads on these texts                                               *)
(***************************************************************************)
\* A parse gives ok, the position after what it read, and the value read,
\* written without white space (out).
Fail == [ok |-> FALSE, pos |-> 0, out |-> <<>>]
Read(p, o) == [ok |-> TRUE, pos |-> p, out |-> o]

RECURSIVE SkipSpace(_, _)
SkipSpace(t, i) == IF i <= Len(t) /\ IsSpace(t[i]) THEN SkipSpace(t, i + 1) ELSE i

\* The position of the next double quote at or after i (0: there is none).
RECURSIVE NextQuote(_, _)
NextQuote(t, i) ==
    IF i > Len(t) THEN 0 ELSE IF t[i] = "\"" THEN i ELSE NextQuote(t, i + 1)

\* A string: from the double quote at i to the next one.
ParseString(t, i) ==
    IF i <= Len(t) /\ t[i] = "\"" /\ NextQuote(t, i + 1) # 0
    THEN Read(NextQuote(t, i + 1) + 1, SubSeq(t, i, NextQuote(t, i + 1)))
    ELSE Fail

IsDigit(c) == c \in {"1", "2"}

RECURSIVE ParseValue(_, _)
RECURSIVE ParseElements(_, _, _)
RECURSIVE ParseMembers(_, _, _)

\* The elements of an array after "[" or after a comma; acc is what was read.
ParseElements(t, i, acc) ==
    LET v == ParseValue(t, i) IN
    IF ~v.ok THEN Fail
    ELSE LET j == SkipSpace(t, v.pos) IN
         IF j > Len(t) THEN Fail
         ELSE IF t[j] = "]" THEN Read(j + 1, acc \o v.out \o <<"]">>)
         ELSE IF t[j] = "," THEN ParseElements(t, j + 1, acc \o v.out \o <<",">>)
         ELSE Fail

\* The members of an object after "{" or after a comma.
ParseMembers(t, i, acc) ==
    LET k == ParseString(t, SkipSpace(t, i)) IN
    IF ~k.ok THEN Fail
    ELSE LET c == SkipSpace(t, k.pos) IN
         IF c > Len(t) \/ t[c] # ":" THEN Fail
         ELSE LET v == ParseValue(t, c + 1) IN
              IF ~v.ok THEN Fail
              ELSE LET j == SkipSpace(t, v.pos) IN
                   IF j > Len(t) THEN Fail
                   ELSE IF t[j] = "}"
                        THEN Read(j + 1, acc \o k.out \o <<":">> \o v.out \o <<"}">>)
                   ELSE IF t[j] = ","
                        THEN ParseMembers(t, j + 1,
                                          acc \o k.out \o <<":">> \o v.out \o <<",">>)
                   ELSE Fail

\* One JSON value, white space before it skipped.
ParseValue(t, i) ==
    LET j == SkipSpace(t, i) IN
    IF j > Len(t) THEN Fail
    ELSE IF t[j] = "{"
         THEN IF SkipSpace(t, j + 1) <= Len(t) /\ t[SkipSpace(t, j + 1)] = "}"
              THEN Read(SkipSpace(t, j + 1) + 1, <<"{", "}">>)
              ELSE ParseMembers(t, j + 1, <<"{">>)
    ELSE IF t[j] = "["
         THEN IF SkipSpace(t, j + 1) <= Len(t) /\ t[SkipSpace(t, j + 1)] = "]"
              THEN Read(SkipSpace(t, j + 1) + 1, <<"[", "]">>)
              ELSE ParseElements(t, j + 1, <<"[">>)
    ELSE IF t[j] = "\"" THEN ParseString(t, j)
    ELSE IF IsDigit(t[j]) THEN Read(j + 1, <<t[j]>>)
    ELSE Fail

\* The outcome of a coercion: the value, or the failure (an exception).
Value(o) == [ok |-> TRUE, value |-> o]
Failure == [ok |-> FALSE, value |-> <<>>]

\* json.loads(text): one value and nothing but white space after it.
Loads(t) ==
    LET v == ParseValue(t, 1) IN
    IF v.ok /\ SkipSpace(t, v.pos) > Len(t) THEN Value(v.out) ELSE Failure

(***************************************************************************)
(* Coercion of a model reply: the two paths                                *)
(***************************************************************************)
\* The message contents the chat completion may return.
ReplyTexts ==
    { <<" ", " ", "{", "\"", "a", "\"", ":", " ", "'", "b", "'", "}", " ", " ">>,
      <<"{", "\"", "a", "\"", ":", " ", "\"", "b", "\"", "}">>,
      <<"\n", "{", "\"", "a", "\"", ":", "\"", "b", "\"", "}", "\n">>,
      <<"{", "'", "a", "'", ":", " ", "'", "b", "'", "}">>,
      <<"{", "\"", "a", "\"", ":", "\"", "b", "'", "s", "\"", "}">>,
      <<"{", "\"", "a", "\"", ":", "[", "\"", "b", "\"", ",", " ", "'", "b", "'", "]", "}">>,
      <<"{", "\"", "a", "\"", ":", "{", "\"", "b", "\"", ":", "1", "}", ",",
        "\"", "b", "\"", ":", "2", "}">>,
      <<"{", "}">>,
      <<" ", "{", " ", "}">>,
      <<"{", "a", "}">>,
      <<"{", "\"", "a", "\"", ":", "\"", "b", "\"">>,
      <<"{", "\"", "a", "\"", ":", "1", "}", " ", "b">>,
      <<"{", "\"", "a", "\"", ":", "1", "}", "{", "}">>,
      <<"a", " ", "b">>,
      <<"[", "1", ",", " ", "2", "]">>,
      <<" ", "[", "'", "a", "'", "]", " ">>,
      <<"[", "]">>,
      <<"\"", "a", "\"">>,
      <<"'", "a", "'">>,
      <<"1">>,
      <<" ", " ">>,
      <<>> }

InitCoerce ==
    /\ cpc = "idle"
    /\ cpath = "none"
    /\ raw = <<>>
    /\ content = <<>>
    /\ coerced = Failure

\* The chat completion returns its message content, on either path.
ReceiveReply ==
    /\ cpc = "idle"
    /\ \E path \in {"resume", "query"}, t \in ReplyTexts :
          /\ cpath' = path
          /\ raw' = t
    /\ cpc' = "received"
    /\ UNCHANGED <<content, coerced>>
    /\ UNCHANGED <<resumeVars, matchVars, keyVars>>

\* content = ... ['content'].strip(), on either path.
Trim ==
    /\ cpc = "received"
    /\ content' = Strip(raw)
    /\ cpc' = "trimmed"
    /\ UNCHANGED <<cpath, raw, coerced>>
    /\ UNCHANGED <<resumeVars, matchVars, keyVars>>

\* generate_gpt_insights: the test of the braces, which raises HTTPException
\* when it fails.
BraceCheck ==
    /\ cpc = "trimmed"
    /\ cpath = "resume"
    /\ IF IsBraced(content)
       THEN cpc' = "ready" /\ coerced' = coerced
       ELSE cpc' = "done" /\ coerced' = Failure
    /\ UNCHANGED <<cpath, raw, content>>
    /\ UNCHANGED <<resumeVars, matchVars, keyVars>>

\* parse_natural_query: parsed_query_str.replace("'", '"').
NormalizeQuotes ==
    /\ cpc = "trimmed"
    /\ cpath = "query"
    /\ content' = ReplaceQuotes(content)
    /\ cpc' = "ready"
    /\ UNCHANGED <<cpath, raw, coerced>>
    /\ UNCHANGED <<resumeVars, matchVars, keyVars>>

\* json.loads(content), on either path: the value, or the exception that the
\* except clause turns into an HTTPException.
LoadJson ==
    /\ cpc = "ready"
    /\ coerced' = Loads(content)
    /\ cpc' = "done"
    /\ UNCHANGED <<cpath, raw, content>>
    /\ UNCHANGED <<resumeVars, matchVars, keyVars>>

NextCoerce ==
    \/ ReceiveReply
    \/ Trim
    \/ BraceCheck
    \/ NormalizeQuotes
    \/ LoadJson

(***************************************************************************)
(* Specifications                                                          *)
(***************************************************************************)
Init == InitResume /\ InitMatch /\ InitKeys /\ InitCoerce

\* The components share no variable; each is checked on its own.
SpecResume == Init /\ [][NextResume]_vars
SpecMatch == Init /\ [][NextMatch]_vars
SpecKeys == Init /\ [][NextKeys]_vars
SpecCoerce == Init /\ [][NextCoerce]_vars

Next == NextResume \/ NextMatch \/ NextKeys \/ NextCoerce
Spec == Init /\ [][Next]_vars

(***************************************************************************)
(* Properties of the resume service                                        *)
(***************************************************************************)
\* The shapes of an employment_dates text, read off its words.
IsMonthWord(w) == MonthNumber(w) \in 1..12
IsYearWord(w) == YearNumber(w) > 0
IsMarker(w) == w \in {"Present", "PRESENT", "present", "Current", "CURRENT", "current"}

\* "<MonthName> <Year> - <MonthName> <Year>"
ClosedRange(v) ==
    /\ v.t = "str"
    /\ Len(v.s) = 5
    /\ IsMonthWord(v.s[1]) /\ IsYearWord(v.s[2])
    /\ v.s[3] = "-"
    /\ IsMonthWord(v.s[4]) /\ IsYearWord(v.s[5])

\* "<MonthName> <Year> - Present"
OpenRange(v) ==
    /\ v.t = "str"
    /\ Len(v.s) = 4
    /\ IsMonthWord(v.s[1]) /\ IsYearWord(v.s[2])
    /\ v.s[3] = "-"
    /\ IsMarker(v.s[4])

\* "Present - <MonthName> <Year>"
MarkerFirst(v) ==
    /\ v.t = "str"
    /\ Len(v.s) = 4
    /\ IsMarker(v.s[1])
    /\ v.s[2] = "-"
    /\ IsMonthWord(v.s[3]) /\ IsYearWord(v.s[4])

WellFormed(v) == ClosedRange(v) \/ OpenRange(v)

DatesOf(i) == work_experience[i].employment_dates

\* The indices 1..n of the well-formed jobs, in order.
RECURSIVE WellFormedUpTo(_)
WellFormedUpTo(n) ==
    IF n = 0 THEN <<>>
    ELSE IF WellFormed(DatesOf(n)) THEN Append(WellFormedUpTo(n - 1), n)
         ELSE WellFormedUpTo(n - 1)

Kept == {modified_work_experience[k] : k \in DOMAIN modified_work_experience}

Returned == pc = "returned" \/ (pc = "done" /\ status = 200)

C2_NeverRaises == pc # "raised"

\* C5: a caller input error is answered with status 400: an upload whose name
\* ends in neither .pdf nor .docx, a /match/ body with a side missing.
C5_InputError400 ==
    /\ (pc = "done" /\ filename[Len(filename)] \notin {".pdf", ".docx"}) => status = 400
    /\ (mpc = "done" /\ (job_description_details.t = "missing" \/ resume_details = "missing")
           /\ job_description_details.t # "null" /\ resume_details # "null")
          => mstatus = 400

\* C7: after calculate_experience returns, total_years >= 0 and every returned
\* record has experience_years >= 0; a closed range parses whatever the order
\* of its two dates.
C7_NonNegative ==
    /\ \A i \in 1..idx : ClosedRange(DatesOf(i)) => i \in DOMAIN experience_years
    /\ \A i \in DOMAIN experience_years : experience_years[i] >= 0
    /\ Returned => total_rounded >= 0

\* The calendar month count 12*(Year2-Year1) + (Month2-Month1) of a closed range.
MonthCount(v) ==
    12 * (YearNumber(v.s[5]) - YearNumber(v.s[2]))
        + (MonthNumber(v.s[4]) - MonthNumber(v.s[1]))

\* t tenths is whole + rem/12 rounded to one decimal: |t/10 - (whole + rem/12)| <= 1/20.
IsRounded(t, whole, rem) ==
    LET d == 6 * t - 5 * (12 * whole + rem) IN -3 <= d /\ d <= 3

\* C8: for a closed range with start not after end, experience_years is
\* wholeYears + remainderMonths/12 rounded to one decimal, the quotient and
\* remainder by 12 of the calendar month count; N whole years give exactly N.0.
C8_MonthArithmetic ==
    \A i \in 1..idx :
        (ClosedRange(DatesOf(i)) /\ MonthCount(DatesOf(i)) >= 0) =>
            LET m == MonthCount(DatesOf(i)) IN
            /\ i \in DOMAIN experience_years
            /\ IsRounded(experience_years[i], m \div 12, m % 12)
            /\ (m % 12 = 0 => experience_years[i] = 10 * (m \div 12))

\* C8 witness: "January 2015 - January 2017" gave 2.0, and a range with a
\* remainder was rounded.
C8_Witness ==
    /\ pc = "returned"
    /\ \E i \in DOMAIN experience_years :
          /\ DatesOf(i) = Str(<<"January", "2015", "-", "January", "2017">>)
          /\ experience_years[i] = 20
    /\ \E i \in DOMAIN experience_years :
          /\ DatesOf(i) = Str(<<"january", "2015", "-", "February", "2016">>)
          /\ experience_years[i] = 11

RECURSIVE SumKept(_)
SumKept(n) ==
    IF n = 0 THEN 0
    ELSE experience_years[modified_work_experience[n]] + SumKept(n - 1)

SumOfRecords == SumKept(Len(modified_work_experience))

\* C9 as stated: total_years and the sum of the returned experience_years
\* differ by at most 0.1, for a sequence of any length.
C9_WithinOneTenth ==
    Returned => Abs(total_rounded - SumOfRecords) <= 1

\* C9 amended: they differ by at most 0.05 for each rounding made, that is by
\* at most 0.05 * (n + 1) for n returned records.
C9_WithinHalfTenthPerRounding ==
    Returned => 2 * Abs(total_rounded - SumOfRecords) <= Len(modified_work_experience) + 1

\* C9 witness: three returned records whose sum is 0.2 away from the total.
C9_Witness ==
    /\ pc = "returned"
    /\ Len(modified_work_experience) = 3
    /\ Abs(total_rounded - SumOfRecords) = 2

\* C10 as stated: a text with the marker on either side of " - " parses and
\* its record is kept.
C10_EitherSide ==
    \A i \in 1..idx :
        (OpenRange(DatesOf(i)) \/ MarkerFirst(DatesOf(i))) => i \in Kept

\* C10 amended: a text "<MonthName> <Year> - <marker>", the marker Present or
\* Current in any letter case on the end side, parses; its end instant is the
\* clock read in that iteration, and the record is kept.
C10_EndSideMarker ==
    [][ (pc = "calc" /\ idx < Len(work_experience) /\ OpenRange(DatesOf(idx + 1))
           /\ (idx' # idx \/ pc' # pc))
        => /\ pc' = "calc"
           /\ idx' = idx + 1
           /\ modified_work_experience' = Append(modified_work_experience, idx + 1)
           /\ (idx + 1) \in DOMAIN end_date'
           /\ end_date'[idx + 1] = Clock[now] ]_vars

\* C10 witness: "March 2016 - CURRENT" was kept with the later clock value as
\* its end.
C10_Witness ==
    \E i \in Kept :
        /\ DatesOf(i) = Str(<<"March", "2016", "-", "CURRENT">>)
        /\ end_date[i] = Clock[2]

(***************************************************************************)
(* Properties of the matching service                                      *)
(***************************************************************************)
\* The leaf items of the tree in visiting order; a category that is no dict
\* is skipped.
RECURSIVE LeavesOfItems(_, _, _)
LeavesOfItems(c, sc, items) ==
    IF items = <<>> THEN <<>>
    ELSE <<[category |-> c, subcategory |-> sc, item |-> Head(items)]>>
            \o LeavesOfItems(c, sc, Tail(items))

RECURSIVE LeavesOfSubs(_, _, _)
LeavesOfSubs(c, subs, k) ==
    IF k > Len(subs) THEN <<>>
    ELSE LeavesOfItems(c, SubcategoryNames[k], subs[k].items)
            \o LeavesOfSubs(c, subs, k + 1)

RECURSIVE LeavesOfCats(_, _)
LeavesOfCats(cats, k) ==
    IF k > Len(cats) THEN <<>>
    ELSE (IF cats[k].isdict THEN LeavesOfSubs(CategoryNames[k], cats[k].subs, 1) ELSE <<>>)
            \o LeavesOfCats(cats, k + 1)

Leaves == LeavesOfCats(Cats, 1)

CallKey(c) == [category |-> c.category, subcategory |-> c.subcategory, item |-> c.item]

\* The replies on which match_item fails.
Failed(reply) == reply.t \in {"not_json", "empty", "openai_error"}

\* The tree has the shape the endpoint requires and no reply is a JSON value
\* that is not an object.
NoOtherFault ==
    /\ job_description_details.t = "dict" /\ Cats # <<>>
    /\ resume_details = "dict"
    /\ \A c \in 1..Len(Cats) : \A k \in 1..Len(Cats[c].subs) : Cats[c].subs[k].islist
    /\ \A k \in DOMAIN calls : calls[k].reply.t # "array"

ClaimedScore(reply) ==
    IF reply.t = "object" /\ reply.level = "Full match" THEN 2
    ELSE IF reply.t = "object" /\ reply.level = "Partial match" THEN 1
    ELSE 0

RECURSIVE ClaimedSum(_, _)
ClaimedSum(names, k) ==
    IF k = 0 THEN 0
    ELSE (IF calls[k].category \in names THEN ClaimedScore(calls[k].reply) ELSE 0)
            + ClaimedSum(names, k - 1)

LeavesIn(names) == Cardinality({k \in DOMAIN Leaves : Leaves[k].category \in names})

AllNames == {CategoryNames[k] : k \in DOMAIN CategoryNames}

\* score (halves/items) is the mean of sum halves over n items.
IsMean(score, sum, n) == score[1] * n = sum * score[2]

\* C4: in a success response the score of a category is the mean of the
\* mapped scores of all its leaf items, a failed item counting as 0.0 (no
\* score for a category without items), and overall_score is the mean over
\* all leaf items (0 when there is none).
C4_MeanOverAllLeaves ==
    (mpc = "done" /\ mstatus = 200) =>
        /\ \A name \in AllNames :
              IF LeavesIn({name}) = 0
              THEN name \notin DOMAIN category_scores
              ELSE /\ name \in DOMAIN category_scores
                   /\ IsMean(category_scores[name],
                             ClaimedSum({name}, Len(calls)), LeavesIn({name}))
        /\ IF Len(Leaves) = 0
           THEN overall_score[1] = 0
           ELSE IsMean(overall_score, ClaimedSum(AllNames, Len(calls)), Len(Leaves))

\* The same means, for the responses in which no matcher call failed: there
\* the counters of the code count every leaf item.
C4_MeanWithoutFailures ==
    (\A k \in DOMAIN calls : ~Failed(calls[k].reply)) => C4_MeanOverAllLeaves

\* The leaf entries of matching_results, by category, subcategory and item.
EntryKeys ==
    UNION { UNION { { <<c, sc, item>> : item \in DOMAIN matching_results[c][sc] } :
                    sc \in DOMAIN matching_results[c] } :
            c \in DOMAIN matching_results }

EntryOf(key) == matching_results[key[1]][key[2]][key[3]]

\* The entry is the one the except clause of the item loop stores.
Synthesized(e) == \E r \in Replies : e = ErrorEntry(MatchItem(r).detail)

\* C12: in a success response the result tree and the counters agree, also
\* for a subcategory list that names an item text more than once: the number
\* of leaf entries that the matcher returned (not the synthesized "Error"
\* entry) is the denominator of overall_score, and the number of all leaf
\* entries is the number of matcher calls made.
C12_TreeAgreesWithCounters ==
    (mpc = "done" /\ mstatus = 200) =>
        /\ Cardinality({key \in EntryKeys : ~Synthesized(EntryOf(key))}) = total_items
        /\ Cardinality(EntryKeys) = Len(calls)

\* No subcategory list of the tree names an item text twice.
NoRepeatedItem ==
    \A j, k \in DOMAIN Leaves : Leaves[j] = Leaves[k] => j = k

\* The same agreement, for the trees without a repeated item text: there each
\* call stores an entry of its own.
C12_AgreesWithoutRepeats ==
    NoRepeatedItem => C12_TreeAgreesWithCounters

(***************************************************************************)
(* Properties of the ambient API key                                       *)
(***************************************************************************)
\* C6: every LLM call issued on behalf of a request is made with that
\* request's own key, whatever the interleaving of two concurrent requests
\* with different keys.
C6_OwnKey ==
    \A k \in DOMAIN used : used[k].key = KeyOf(used[k].request)

(***************************************************************************)
(* Properties of the coercion                                              *)
(***************************************************************************)
\* The four steps in order: trim, reject a text without the braces, replace
\* the single quotes, parse strictly.
FourSteps(t) ==
    IF IsBraced(Strip(t)) THEN Loads(ReplaceQuotes(Strip(t))) ELSE Failure

\* C11: on the resume path and on the query path alike the reply is trimmed,
\* a trimmed text that does not begin with "{" and end with "}" is a failure,
\* single quotes are replaced by double quotes and the result is strictly
\* parsed: a padded object with single-quoted strings coerces to the object
\* with double-quoted strings, a reply that is no JSON object fails.
C11_SameFourSteps ==
    cpc = "done" => coerced = FourSteps(raw)

====
